---- MODULE Spec2Model ----
(***************************************************************************)
(* Model of template_helpers.py: the account status classifier             *)
(* (_get_account_status), the base URL rule (get_base_url_from_request)    *)
(* and the dashboard aggregator (prepare_admin_template_data) with the log *)
(* lock it shares with the logging subsystem.                              *)
(*                                                                         *)
(* Python strings are TLA+ strings where only equality and concatenation   *)
(* matter (labels, colours), and sequences of one-character strings where  *)
(* the code looks inside them (rstrip on the base URL).  The Chinese       *)
(* labels of the source are written in ASCII; the comment beside each one  *)
(* gives its meaning.                                                      *)
(***************************************************************************)
EXTENDS Integers, Sequences, FiniteSets, TLC

VARIABLES
    accounts,       \* multi_account_mgr.accounts: the pool's keys in iteration order
    signals,        \* account id -> the signals of that account (config + manager)
    log_buffer,     \* the shared log buffer, a sequence of log records
    log_lock,       \* owner of the log lock: "free", "reader" or "writer"
    base_url,       \* config.basic.base_url
    request,        \* the request: url.scheme and the three headers the code reads
    pc,             \* position of the dashboard call
    current_url,    \* local of prepare_admin_template_data (line 109)
    error_count,    \* local (line 112)
    scan_idx,       \* position of the for loop over log_buffer (line 114)
    exc,            \* the exception in flight, "none" when there is none
    error_alert,    \* local (line 141)
    accounts_rows,  \* local (line 163): the rows appended so far
    row_idx,        \* position of the for loop over the pool (line 164)
    accounts_html,  \* local (line 199): the rows of the table body
    rd,             \* locals of the _get_account_status call in progress
    held,           \* history: signal combinations the account held during that call
    status          \* the dict the last _get_account_status call returned

vars == <<accounts, signals, log_buffer, log_lock, base_url, request, pc,
          current_url, error_count, scan_idx, exc, error_alert, accounts_rows,
          row_idx, accounts_html, rd, held, status>>

(***************************************************************************)
(* Bounds of the model.                                                    *)
(***************************************************************************)
\* largest cooldown_seconds value drawn
MaxCooldown == 2
\* how far below -1 (the ban marker) out-of-range cooldown_seconds are drawn
MaxBelowBan == 2
\* longest log buffer
MaxLog == 2
\* longest configured base URL, in characters
MaxUrlLen == 3

(***************************************************************************)
(* Values.                                                                 *)
(***************************************************************************)
AccountIds == {"a1", "a2"}
CooldownValues == (0 - 1 - MaxBelowBan) .. MaxCooldown
CooldownReasons == {"rate limited"}

\* "zheng chang" (normal), line 71
TEXT_NORMAL == "normal"
\* "ji jiang guo qi" (expiring soon), line 74
TEXT_EXPIRING == "expiring-soon"
\* "guo qi jin yong" (expired, disabled), line 35
TEXT_EXPIRED == "expired-disabled"
\* "shou dong jin yong" (manually disabled), line 41
TEXT_DISABLED == "manually-disabled"
\* "bu ke yong" (unavailable), line 81
TEXT_UNAVAILABLE == "unavailable"
\* "wei she zhi" (not set), line 182
TEXT_NOT_SET == "not-set"

\* What format_account_expiration(remaining_hours) can return: the status text
\* and the display string (its second component is dropped on line 27).
FormattedExpirations ==
    { [text |-> TEXT_NORMAL, display |-> "100.0h"],
      [text |-> TEXT_EXPIRING, display |-> "2.0h"],
      [text |-> "already-expired", display |-> "already-expired"] }

\* One account of the pool: config (account_id, disabled, expires_at, the
\* expiration derived from remaining_hours, is_expired()) and manager
\* (get_cooldown_info(), is_available, conversation_count).
AccountSignals(ids, cooldowns, expirations) ==
    [ account_id : ids,
      is_expired : BOOLEAN,
      disabled : BOOLEAN,
      cooldown_seconds : cooldowns,
      cooldown_reason : CooldownReasons,
      is_available : BOOLEAN,
      expiration : expirations,
      expires_at : {""},
      conversation_count : {0} ]

(***************************************************************************)
(* Formatting of an integer, as an f-string does it.                       *)
(***************************************************************************)
Digit(d) ==
    CASE d = 0 -> "0" [] d = 1 -> "1" [] d = 2 -> "2" [] d = 3 -> "3"
      [] d = 4 -> "4" [] d = 5 -> "5" [] d = 6 -> "6" [] d = 7 -> "7"
      [] d = 8 -> "8" [] d = 9 -> "9"

RECURSIVE NatStr(_)
NatStr(n) == IF n < 10 THEN Digit(n) ELSE NatStr(n \div 10) \o Digit(n % 10)

IntStr(n) == IF n < 0 THEN "-" \o NatStr(0 - n) ELSE NatStr(n)

(***************************************************************************)
(* _get_account_status, lines 23-98.                                       *)
(***************************************************************************)
Button(fn, account_id) == [onclick |-> fn, account_id |-> account_id]

\* lines 34-39
BranchExpired(account_id) ==
    [ state |-> "Expired",
      status_text |-> TEXT_EXPIRED,
      status_color |-> "#9e9e9e",
      dot_color |-> "#9e9e9e",
      row_opacity |-> "0.5",
      action_buttons |-> <<Button("deleteAccount", account_id)>> ]

\* lines 40-48
BranchDisabled(account_id) ==
    [ state |-> "ManuallyDisabled",
      status_text |-> TEXT_DISABLED,
      status_color |-> "#9e9e9e",
      dot_color |-> "#9e9e9e",
      row_opacity |-> "0.5",
      action_buttons |-> <<Button("enableAccount", account_id),
                           Button("deleteAccount", account_id)>> ]

\* lines 49-57
BranchBanned(account_id, cooldown_reason) ==
    [ state |-> "Banned",
      status_text |-> cooldown_reason,
      status_color |-> "#f44336",
      dot_color |-> "#f44336",
      row_opacity |-> "0.5",
      action_buttons |-> <<Button("enableAccount", account_id),
                           Button("deleteAccount", account_id)>> ]

BranchCooldownDim(account_id, cooldown_reason, cooldown_seconds) ==
    [ state |-> "Cooldown",
      status_text |-> cooldown_reason \o " (" \o IntStr(cooldown_seconds) \o "s)",
      status_color |-> "#ff9800",
      dot_color |-> "#ff9800",
      row_opacity |-> "0.5",
      action_buttons |-> <<Button("disableAccount", account_id),
                           Button("deleteAccount", account_id)>> ]

\* lines 58-66
BranchCooldown(account_id, cooldown_reason, cooldown_seconds) ==
    [ state |-> "Cooldown",
      status_text |-> cooldown_reason \o " (" \o IntStr(cooldown_seconds) \o "s)",
      status_color |-> "#ff9800",
      dot_color |-> "#ff9800",
      row_opacity |-> "1",
      action_buttons |-> <<Button("disableAccount", account_id),
                           Button("deleteAccount", account_id)>> ]

BranchAvailabilityEnable(account_id, is_avail, expire_status_text) ==
    [ state |-> IF is_avail THEN "Healthy" ELSE "Unhealthy",
      status_text |-> IF is_avail THEN expire_status_text ELSE TEXT_UNAVAILABLE,
      status_color |-> "#f44336",
      dot_color |-> "#f44336",
      row_opacity |-> "1",
      action_buttons |-> <<Button("enableAccount", account_id),
                           Button("disableAccount", account_id),
                           Button("deleteAccount", account_id)>> ]

\* lines 67-88
BranchAvailability(account_id, is_avail, expire_status_text) ==
    [ state |-> IF is_avail THEN "Healthy" ELSE "Unhealthy",
      status_text |-> IF is_avail THEN expire_status_text ELSE TEXT_UNAVAILABLE,
      status_color |->
          IF is_avail
          THEN IF expire_status_text = TEXT_NORMAL THEN "#4caf50"
               ELSE IF expire_status_text = TEXT_EXPIRING THEN "#ff9800"
               ELSE "#f44336"
          ELSE "#f44336",
      dot_color |->
          IF is_avail
          THEN IF expire_status_text = TEXT_NORMAL THEN "#34c759"
               ELSE IF expire_status_text = TEXT_EXPIRING THEN "#ff9800"
               ELSE "#f44336"
          ELSE "#ff3b30",
      row_opacity |-> "1",
      action_buttons |-> <<Button("disableAccount", account_id),
                           Button("deleteAccount", account_id)>> ]

\* The same chain with the two first tests in the other order.
SelectBranchDisabledFirst(is_expired, is_disabled, cooldown_seconds) ==
    IF is_disabled THEN "disabled"
    ELSE IF is_expired THEN "expired"
    ELSE IF cooldown_seconds = -1 THEN "banned"
    ELSE IF cooldown_seconds > 0 THEN "cooldown"
    ELSE "availability"

\* The same chain with the cooldown test off by one.
SelectBranchOffByOne(is_expired, is_disabled, cooldown_seconds) ==
    IF is_expired THEN "expired"
    ELSE IF is_disabled THEN "disabled"
    ELSE IF cooldown_seconds = -1 THEN "banned"
    ELSE IF cooldown_seconds > 1 THEN "cooldown"
    ELSE "availability"

\* The if/elif/else chain of lines 34, 40, 49, 58 and 67: which branch runs.
SelectBranch(is_expired, is_disabled, cooldown_seconds) ==
    IF is_expired THEN "expired"
    ELSE IF is_disabled THEN "disabled"
    ELSE IF cooldown_seconds = -1 THEN "banned"
    ELSE IF cooldown_seconds > 0 THEN "cooldown"
    ELSE "availability"

\* The dict built on lines 90-98 from the locals read on lines 25-31 and 68.
\* The record r holds those locals; "state" names the branch that ran (Healthy
\* and Unhealthy are the two arms of line 69).
StatusDict(r) ==
    LET b == SelectBranch(r.is_expired, r.is_disabled, r.cooldown_seconds)
        attrs ==
            CASE b = "expired" -> BranchExpired(r.account_id)
              [] b = "disabled" -> BranchDisabled(r.account_id)
              [] b = "banned" -> BranchBanned(r.account_id, r.cooldown_reason)
              [] b = "cooldown" ->
                     BranchCooldown(r.account_id, r.cooldown_reason, r.cooldown_seconds)
              [] b = "availability" ->
                     BranchAvailability(r.account_id, r.is_avail, r.expire_status_text)
    IN  [ state |-> attrs.state,
          status_text |-> attrs.status_text,
          status_color |-> attrs.status_color,
          dot_color |-> attrs.dot_color,
          row_opacity |-> attrs.row_opacity,
          action_buttons |-> attrs.action_buttons,
          expire_display |-> r.expire_display,
          config_obj |-> r.account_id ]

\* The locals of a call that reads every signal of s at one moment.
ReadAll(s) ==
    [ account_id |-> s.account_id,
      expire_status_text |-> s.expiration.text,
      expire_display |-> s.expiration.display,
      is_expired |-> s.is_expired,
      is_disabled |-> s.disabled,
      cooldown_seconds |-> s.cooldown_seconds,
      cooldown_reason |-> s.cooldown_reason,
      is_avail |-> s.is_available ]

\* _get_account_status on an account whose signals do not change during the call.
_get_account_status(s) == StatusDict(ReadAll(s))

NoStatus == [state |-> "none"]
NoRead == [account_id |-> "none"]

(***************************************************************************)
(* get_base_url_from_request, lines 10-20.                                 *)
(***************************************************************************)
\* A Python value that may be None: config.basic.base_url, a header lookup.
Absent == [present |-> FALSE, value |-> <<>>]
Some(v) == [present |-> TRUE, value |-> v]
Optional(S) == {Absent} \cup {Some(v) : v \in S}

Chars == {"a", "/"}
Strings(n) == UNION {[1 .. k -> Chars] : k \in 0 .. n}

\* Truth value of a string or None (line 13): None and "" are false.
Truthy(o) == o.present /\ o.value # <<>>

\* str.rstrip(ch): drops every trailing ch.
RECURSIVE rstrip(_, _)
rstrip(str, ch) ==
    IF str # <<>> /\ str[Len(str)] = ch
    THEN rstrip(SubSeq(str, 1, Len(str) - 1), ch)
    ELSE str

\* headers.get(name, default): the header when the request carries it.
HeadersGet(header, default) == IF header.present THEN header ELSE default

\* What an f-string writes for a value: None is written "None".
FormatValue(o) == IF o.present THEN o.value ELSE <<"N", "o", "n", "e">>

\* The forwarded host taken only together with the forwarded scheme.
get_base_url_coupled(cfg_base_url, req) ==
    IF Truthy(cfg_base_url)
    THEN rstrip(cfg_base_url.value, "/")
    ELSE LET forwarded_proto == HeadersGet(req.x_forwarded_proto, Some(req.scheme))
             forwarded_host ==
                 IF req.x_forwarded_proto.present
                 THEN HeadersGet(req.x_forwarded_host, HeadersGet(req.host, Absent))
                 ELSE HeadersGet(req.host, Absent)
         IN  FormatValue(forwarded_proto) \o <<":", "/", "/">>
                 \o FormatValue(forwarded_host)

get_base_url_from_request(cfg_base_url, req) ==
    IF Truthy(cfg_base_url)
    THEN rstrip(cfg_base_url.value, "/")
    ELSE LET forwarded_proto == HeadersGet(req.x_forwarded_proto, Some(req.scheme))
             forwarded_host ==
                 HeadersGet(req.x_forwarded_host, HeadersGet(req.host, Absent))
         IN  FormatValue(forwarded_proto) \o <<":", "/", "/">>
                 \o FormatValue(forwarded_host)

\* A request with no forwarded headers.
PlainRequest ==
    [ scheme |-> <<"h">>,
      x_forwarded_proto |-> Absent,
      x_forwarded_host |-> Absent,
      host |-> Some(<<"i">>) ]

Requests ==
    [ scheme : {<<"h">>, <<"s">>},
      x_forwarded_proto : Optional({<<"p">>, <<>>}),
      x_forwarded_host : Optional({<<"f">>}),
      host : Optional({<<"i">>}) ]

NoAlert == [present |-> FALSE, count |-> 0]

(***************************************************************************)
(* SpecClassify: the classifier applied to every signal combination.       *)
(***************************************************************************)
\* The locals of a call that has not started.
LocalsInit ==
    /\ pc = "idle"
    /\ current_url = <<>>
    /\ error_count = 0
    /\ scan_idx = 0
    /\ exc = "none"
    /\ error_alert = NoAlert
    /\ accounts_rows = <<>>
    /\ row_idx = 0
    /\ accounts_html = <<>>
    /\ rd = NoRead
    /\ held = {}
    /\ status = NoStatus

InitClassify ==
    /\ accounts \in {<<a>> : a \in AccountIds}
    /\ signals \in [{accounts[1]} ->
                       AccountSignals({accounts[1]}, CooldownValues, FormattedExpirations)]
    /\ log_buffer = <<>>
    /\ log_lock = "free"
    /\ base_url = Absent
    /\ request = PlainRequest
    /\ LocalsInit

Classify ==
    /\ pc = "idle"
    /\ status' = _get_account_status(signals[accounts[1]])
    /\ pc' = "done"
    /\ UNCHANGED <<accounts, signals, log_buffer, log_lock, base_url, request,
                   current_url, error_count, scan_idx, exc, error_alert,
                   accounts_rows, row_idx, accounts_html, rd, held>>

NextClassify == Classify

SpecClassify == InitClassify /\ [][NextClassify]_vars

\* The signals the classified account has.
TheSignals == signals[accounts[1]]
Classified == pc = "done" /\ status # NoStatus

ActionSet(st) == {st.action_buttons[i].onclick : i \in 1 .. Len(st.action_buttons)}

(***************************************************************************)
(* SpecUrl: the base URL rule applied to every configuration and request.  *)
(***************************************************************************)
InitUrl ==
    /\ accounts = <<>>
    /\ signals = <<>>
    /\ log_buffer = <<>>
    /\ log_lock = "free"
    /\ base_url \in Optional(Strings(MaxUrlLen))
    /\ request \in Requests
    /\ LocalsInit

ResolveUrl ==
    /\ pc = "idle"
    /\ current_url' = get_base_url_from_request(base_url, request)
    /\ pc' = "done"
    /\ UNCHANGED <<accounts, signals, log_buffer, log_lock, base_url, request,
                   error_count, scan_idx, exc, error_alert, accounts_rows,
                   row_idx, accounts_html, rd, held, status>>

NextUrl == ResolveUrl

SpecUrl == InitUrl /\ [][NextUrl]_vars

(***************************************************************************)
(* prepare_admin_template_data, lines 101-245, and the logging subsystem   *)
(* that shares log_buffer and log_lock with it.                            *)
(***************************************************************************)
LogLevels == {"INFO", "ERROR", "CRITICAL"}

\* A log record is a dict, with or without a "level" key; NotADict stands for
\* an entry of the buffer that has no get method.
DictRecord(fields) == [is_dict |-> TRUE, fields |-> fields]
NotADict == [is_dict |-> FALSE, fields |-> [message |-> "m"]]
LogRecords ==
    {DictRecord([level |-> l, message |-> "m"]) : l \in LogLevels}
        \cup {DictRecord([message |-> "m"]), NotADict}

\* dict.get(key): the value, or None when the key is missing.
DictGet(log, key) ==
    IF key \in DOMAIN log.fields THEN Some(log.fields[key]) ELSE Absent

\* Only ERROR counts.
CountsAsErrorOnly(log) ==
    LET level == DictGet(log, "level")
    IN  level.present /\ level.value = "ERROR"

\* line 115: log.get("level") in ["ERROR", "CRITICAL"]
CountsAsError(log) ==
    LET level == DictGet(log, "level")
    IN  level.present /\ level.value \in {"ERROR", "CRITICAL"}

\* The pools: every order of every subset of the account ids.
Pools ==
    {q \in UNION {[1 .. k -> AccountIds] : k \in 0 .. Cardinality(AccountIds)} :
        \A i, j \in 1 .. Len(q) : i # j => q[i] # q[j]}

PoolIds(q) == {q[i] : i \in 1 .. Len(q)}

\* The signals the accounts of the dashboard specification draw from: the
\* combinations with at most one signal against the account, one for each
\* display state (SpecClassify covers every combination).
DashboardSignals ==
    {s \in AccountSignals(AccountIds, {-1, 0, 1},
                          {[text |-> TEXT_NORMAL, display |-> "100.0h"]}) :
        Cardinality({k \in {"is_expired", "disabled", "cooldown", "unavailable"} :
                        \/ k = "is_expired" /\ s.is_expired
                        \/ k = "disabled" /\ s.disabled
                        \/ k = "cooldown" /\ s.cooldown_seconds # 0
                        \/ k = "unavailable" /\ ~s.is_available}) <= 1}

\* lines 170-196: the row of one account, from its status dict.
AccountRow(st, s) ==
    [ row_opacity |-> st.row_opacity,
      dot_color |-> st.dot_color,
      account_id |-> st.config_obj,
      status_color |-> st.status_color,
      status_text |-> st.status_text,
      expires_at |-> IF s.expires_at # "" THEN s.expires_at ELSE TEXT_NOT_SET,
      expire_display |-> st.expire_display,
      conversation_count |-> s.conversation_count,
      action_buttons |-> st.action_buttons ]

\* line 212: the row shown for an empty pool, "zan wu zhang hu" (no accounts)
PlaceholderRow == [colspan |-> 6, text |-> "no-accounts"]

\* lines 109 and 112
Start ==
    /\ pc = "idle"
    /\ current_url' = get_base_url_from_request(base_url, request)
    /\ error_count' = 0
    /\ pc' = "acquire"
    /\ UNCHANGED <<accounts, signals, log_buffer, log_lock, base_url, request,
                   scan_idx, exc, error_alert, accounts_rows, row_idx,
                   accounts_html, rd, held, status>>

\* line 113, entering the with block: blocks while the lock is taken
Acquire ==
    /\ pc = "acquire"
    /\ log_lock = "free"
    /\ log_lock' = "reader"
    /\ scan_idx' = 0
    /\ pc' = "scan"
    /\ UNCHANGED <<accounts, signals, log_buffer, base_url, request, current_url,
                   error_count, exc, error_alert, accounts_rows, row_idx,
                   accounts_html, rd, held, status>>

\* One iteration that removes the record it has counted.
ScanConsuming ==
    /\ pc = "scan"
    /\ IF scan_idx < Len(log_buffer)
       THEN LET log == log_buffer[scan_idx + 1]
            IN  IF ~log.is_dict
                THEN /\ exc' = "AttributeError"
                     /\ pc' = "exit_with"
                     /\ UNCHANGED <<error_count, scan_idx, log_buffer>>
                ELSE /\ error_count' =
                            IF CountsAsError(log) THEN error_count + 1 ELSE error_count
                     /\ log_buffer' = Tail(log_buffer)
                     /\ UNCHANGED <<exc, pc, scan_idx>>
       ELSE /\ pc' = "exit_with"
            /\ UNCHANGED <<error_count, scan_idx, exc, log_buffer>>
    /\ UNCHANGED <<accounts, signals, log_lock, base_url, request,
                   current_url, error_alert, accounts_rows, row_idx,
                   accounts_html, rd, held, status>>

\* lines 114-116: one iteration of the loop over log_buffer, or its end;
\* log.get raises AttributeError on an entry that is not a dict.
Scan ==
    /\ pc = "scan"
    /\ IF scan_idx < Len(log_buffer)
       THEN LET log == log_buffer[scan_idx + 1]
            IN  IF ~log.is_dict
                THEN /\ exc' = "AttributeError"
                     /\ pc' = "exit_with"
                     /\ UNCHANGED <<error_count, scan_idx>>
                ELSE /\ error_count' =
                            IF CountsAsError(log) THEN error_count + 1 ELSE error_count
                     /\ scan_idx' = scan_idx + 1
                     /\ UNCHANGED <<exc, pc>>
       ELSE /\ pc' = "exit_with"
            /\ UNCHANGED <<error_count, scan_idx, exc>>
    /\ UNCHANGED <<accounts, signals, log_buffer, log_lock, base_url, request,
                   current_url, error_alert, accounts_rows, row_idx,
                   accounts_html, rd, held, status>>

\* A release written after the loop, which an exception skips.
ExitWithNoFinally ==
    /\ pc = "exit_with"
    /\ log_lock' = IF exc = "none" THEN "free" ELSE log_lock
    /\ pc' = IF exc = "none" THEN "banners" ELSE "failed"
    /\ UNCHANGED <<accounts, signals, log_buffer, base_url, request, current_url,
                   error_count, scan_idx, exc, error_alert, accounts_rows,
                   row_idx, accounts_html, rd, held, status>>

\* line 113, leaving the with block: the lock is released whether the block
\* ended normally or by an exception, which then leaves the function.
ExitWith ==
    /\ pc = "exit_with"
    /\ log_lock' = "free"
    /\ pc' = IF exc = "none" THEN "banners" ELSE "failed"
    /\ UNCHANGED <<accounts, signals, log_buffer, base_url, request, current_url,
                   error_count, scan_idx, exc, error_alert, accounts_rows,
                   row_idx, accounts_html, rd, held, status>>

\* lines 141-151 and 163: the error banner, then the empty row string
Banners ==
    /\ pc = "banners"
    /\ error_alert' = IF error_count > 0
                      THEN [present |-> TRUE, count |-> error_count]
                      ELSE NoAlert
    /\ accounts_rows' = <<>>
    /\ row_idx' = 0
    /\ pc' = "rows"
    /\ UNCHANGED <<accounts, signals, log_buffer, log_lock, base_url, request,
                   current_url, error_count, scan_idx, exc, accounts_html, rd,
                   held, status>>

\* The pool walked from its last key to its first.
BuildRowReversed ==
    /\ pc = "rows"
    /\ row_idx < Len(accounts)
    /\ LET account_id == accounts[Len(accounts) - row_idx]
           st == _get_account_status(signals[account_id])
       IN  /\ status' = st
           /\ accounts_rows' = Append(accounts_rows, AccountRow(st, signals[account_id]))
    /\ row_idx' = row_idx + 1
    /\ UNCHANGED <<accounts, signals, log_buffer, log_lock, base_url, request, pc,
                   current_url, error_count, scan_idx, exc, error_alert,
                   accounts_html, rd, held>>

\* lines 164-196: one iteration of the loop over the pool
BuildRow ==
    /\ pc = "rows"
    /\ row_idx < Len(accounts)
    /\ LET account_id == accounts[row_idx + 1]
           st == _get_account_status(signals[account_id])
       IN  /\ status' = st
           /\ accounts_rows' = Append(accounts_rows, AccountRow(st, signals[account_id]))
    /\ row_idx' = row_idx + 1
    /\ UNCHANGED <<accounts, signals, log_buffer, log_lock, base_url, request, pc,
                   current_url, error_count, scan_idx, exc, error_alert,
                   accounts_html, rd, held>>

\* lines 198-245: the end of the loop, the table body and the return
BuildTable ==
    /\ pc = "rows"
    /\ row_idx = Len(accounts)
    /\ accounts_html' = IF accounts_rows # <<>> THEN accounts_rows
                        ELSE <<PlaceholderRow>>
    /\ pc' = "done"
    /\ UNCHANGED <<accounts, signals, log_buffer, log_lock, base_url, request,
                   current_url, error_count, scan_idx, exc, error_alert,
                   accounts_rows, row_idx, rd, held, status>>

\* The logging subsystem: it takes the lock, appends to the bounded buffer
\* (the oldest record leaves a full buffer) and releases the lock.
WriterAcquire ==
    /\ log_lock = "free"
    /\ log_lock' = "writer"
    /\ UNCHANGED <<accounts, signals, log_buffer, base_url, request, pc,
                   current_url, error_count, scan_idx, exc, error_alert,
                   accounts_rows, row_idx, accounts_html, rd, held, status>>

WriterAppend ==
    /\ log_lock = "writer"
    /\ \E r \in LogRecords :
           log_buffer' = IF Len(log_buffer) < MaxLog
                         THEN Append(log_buffer, r)
                         ELSE Append(Tail(log_buffer), r)
    /\ UNCHANGED <<accounts, signals, log_lock, base_url, request, pc,
                   current_url, error_count, scan_idx, exc, error_alert,
                   accounts_rows, row_idx, accounts_html, rd, held, status>>

WriterRelease ==
    /\ log_lock = "writer"
    /\ log_lock' = "free"
    /\ UNCHANGED <<accounts, signals, log_buffer, base_url, request, pc,
                   current_url, error_count, scan_idx, exc, error_alert,
                   accounts_rows, row_idx, accounts_html, rd, held, status>>

Init ==
    /\ accounts \in Pools
    /\ signals \in [PoolIds(accounts) -> DashboardSignals]
    /\ \A a \in PoolIds(accounts) : signals[a].account_id = a
    /\ log_buffer = <<>>
    /\ log_lock = "free"
    /\ base_url = Absent
    /\ request = PlainRequest
    /\ LocalsInit

Next ==
    \/ Start
    \/ Acquire
    \/ Scan
    \/ ExitWith
    \/ Banners
    \/ BuildRow
    \/ BuildTable
    \/ WriterAcquire
    \/ WriterAppend
    \/ WriterRelease

Spec == Init /\ [][Next]_vars

(***************************************************************************)
(* SpecRace: one _get_account_status call, statement by statement, while   *)
(* the account pool changes the signals of the account it reads.           *)
(***************************************************************************)
RaceSignals ==
    AccountSignals({"a1"}, {-1, 0, 1}, {[text |-> TEXT_NORMAL, display |-> "100.0h"]})

\* The display state an account with signals s has at one moment.
StateOf(s) == _get_account_status(s).state

InCall == pc \in {"read_expired", "read_disabled", "read_cooldown", "branch"}

\* lines 25-27: config_obj, remaining hours and their formatting
ReadConfig ==
    /\ pc = "idle"
    /\ LET s == signals[accounts[1]]
       IN  /\ rd' = [ account_id |-> s.account_id,
                      expire_status_text |-> s.expiration.text,
                      expire_display |-> s.expiration.display,
                      is_expired |-> FALSE,
                      is_disabled |-> FALSE,
                      cooldown_seconds |-> 0,
                      cooldown_reason |-> "",
                      is_avail |-> FALSE ]
           /\ held' = {StateOf(s)}
    /\ pc' = "read_expired"
    /\ UNCHANGED <<accounts, signals, log_buffer, log_lock, base_url, request,
                   current_url, error_count, scan_idx, exc, error_alert,
                   accounts_rows, row_idx, accounts_html, status>>

\* line 29
ReadExpired ==
    /\ pc = "read_expired"
    /\ rd' = [rd EXCEPT !.is_expired = signals[accounts[1]].is_expired]
    /\ pc' = "read_disabled"
    /\ UNCHANGED <<accounts, signals, log_buffer, log_lock, base_url, request,
                   current_url, error_count, scan_idx, exc, error_alert,
                   accounts_rows, row_idx, accounts_html, held, status>>

\* line 30
ReadDisabled ==
    /\ pc = "read_disabled"
    /\ rd' = [rd EXCEPT !.is_disabled = signals[accounts[1]].disabled]
    /\ pc' = "read_cooldown"
    /\ UNCHANGED <<accounts, signals, log_buffer, log_lock, base_url, request,
                   current_url, error_count, scan_idx, exc, error_alert,
                   accounts_rows, row_idx, accounts_html, held, status>>

\* line 31
ReadCooldown ==
    /\ pc = "read_cooldown"
    /\ rd' = [rd EXCEPT !.cooldown_seconds = signals[accounts[1]].cooldown_seconds,
                        !.cooldown_reason = signals[accounts[1]].cooldown_reason]
    /\ pc' = "branch"
    /\ UNCHANGED <<accounts, signals, log_buffer, log_lock, base_url, request,
                   current_url, error_count, scan_idx, exc, error_alert,
                   accounts_rows, row_idx, accounts_html, held, status>>

\* lines 34-98: the chain over the locals; only its else branch reads
\* is_available (line 68), and it reads it now
BranchAndReturn ==
    /\ pc = "branch"
    /\ LET r == IF SelectBranch(rd.is_expired, rd.is_disabled, rd.cooldown_seconds)
                      = "availability"
                THEN [rd EXCEPT !.is_avail = signals[accounts[1]].is_available]
                ELSE rd
       IN  /\ rd' = r
           /\ status' = StatusDict(r)
    /\ pc' = "returned"
    /\ UNCHANGED <<accounts, signals, log_buffer, log_lock, base_url, request,
                   current_url, error_count, scan_idx, exc, error_alert,
                   accounts_rows, row_idx, accounts_html, held>>

\* The account pool (its owner, or the passing of time) changes one signal of
\* the account; held records the combinations seen during the call.
SignalChange ==
    /\ \E s \in RaceSignals :
           LET old == signals[accounts[1]]
           IN  /\ s # old
               /\ Cardinality({k \in {"is_expired", "disabled", "cooldown", "available"} :
                      \/ k = "is_expired" /\ s.is_expired # old.is_expired
                      \/ k = "disabled" /\ s.disabled # old.disabled
                      \/ k = "cooldown" /\ s.cooldown_seconds # old.cooldown_seconds
                      \/ k = "available" /\ s.is_available # old.is_available}) = 1
               /\ signals' = [signals EXCEPT ![accounts[1]] = s]
               /\ held' = IF InCall THEN held \cup {StateOf(s)} ELSE held
    /\ UNCHANGED <<accounts, log_buffer, log_lock, base_url, request, pc,
                   current_url, error_count, scan_idx, exc, error_alert,
                   accounts_rows, row_idx, accounts_html, rd, status>>

InitRace ==
    /\ accounts = <<"a1">>
    /\ signals \in [{"a1"} -> RaceSignals]
    /\ log_buffer = <<>>
    /\ log_lock = "free"
    /\ base_url = Absent
    /\ request = PlainRequest
    /\ LocalsInit

NextRace ==
    \/ ReadConfig
    \/ ReadExpired
    \/ ReadDisabled
    \/ ReadCooldown
    \/ BranchAndReturn
    \/ SignalChange

SpecRace == InitRace /\ [][NextRace]_vars

(***************************************************************************)
(* Claims about the classifier, checked under SpecClassify.                *)
(***************************************************************************)
DisplayStates ==
    {"Expired", "ManuallyDisabled", "Banned", "Cooldown", "Healthy", "Unhealthy"}

\* C1: every signal combination yields exactly one display state, the state of
\* the first matching rule in the order Expired (is_expired) > ManuallyDisabled
\* (disabled) > Banned (cooldown_seconds = -1) > Cooldown (cooldown_seconds > 0)
\* > Healthy / Unhealthy (is_available); an expired account is always Expired.
C1_FirstMatchingRule ==
    Classified =>
        LET s == TheSignals
            st == status.state
            earlier3 == ~s.is_expired /\ ~s.disabled /\ s.cooldown_seconds # -1
        IN  /\ st \in DisplayStates
            /\ (st = "Expired") <=> s.is_expired
            /\ (st = "ManuallyDisabled") <=> (~s.is_expired /\ s.disabled)
            /\ (st = "Banned") <=>
                   (~s.is_expired /\ ~s.disabled /\ s.cooldown_seconds = -1)
            /\ (st = "Cooldown") <=> (earlier3 /\ s.cooldown_seconds > 0)
            /\ (st = "Healthy") <=>
                   (earlier3 /\ ~(s.cooldown_seconds > 0) /\ s.is_available)
            /\ (st = "Unhealthy") <=>
                   (earlier3 /\ ~(s.cooldown_seconds > 0) /\ ~s.is_available)

\* An account that is expired, disabled and banned at once was classified Expired.
C1_Witness ==
    /\ Classified
    /\ TheSignals.is_expired /\ TheSignals.disabled
    /\ TheSignals.cooldown_seconds = -1
    /\ status.state = "Expired"

\* C2: the actions offered depend only on the display state: Expired offers
\* exactly {delete}; ManuallyDisabled and Banned exactly {enable, delete};
\* Cooldown, Healthy and Unhealthy exactly {disable, delete}.  So delete is
\* always offered, enable and disable never together, and an expired account
\* is never offered enable.  Every button acts on the classified account.
C2_ActionsByState ==
    Classified =>
        LET st == status.state
            acts == ActionSet(status)
        IN  /\ st = "Expired" => acts = {"deleteAccount"}
            /\ st \in {"ManuallyDisabled", "Banned"} =>
                   acts = {"enableAccount", "deleteAccount"}
            /\ st \in {"Cooldown", "Healthy", "Unhealthy"} =>
                   acts = {"disableAccount", "deleteAccount"}
            /\ "deleteAccount" \in acts
            /\ ~("enableAccount" \in acts /\ "disableAccount" \in acts)
            /\ TheSignals.is_expired => "enableAccount" \notin acts
            /\ \A i \in 1 .. Len(status.action_buttons) :
                   status.action_buttons[i].account_id = TheSignals.account_id

\* An expired account whose other signals would allow enable was offered delete only.
C2_Witness ==
    /\ Classified
    /\ TheSignals.is_expired /\ TheSignals.disabled
    /\ ActionSet(status) = {"deleteAccount"}

\* C3 as stated: an account classified Healthy or Unhealthy has
\* cooldown_seconds = 0 and is neither expired nor disabled, for every
\* cooldown_seconds value, those below -1 included.
C3_AvailabilityOnlyAtZero ==
    (Classified /\ status.state \in {"Healthy", "Unhealthy"}) =>
        /\ TheSignals.cooldown_seconds = 0
        /\ ~TheSignals.is_expired
        /\ ~TheSignals.disabled

\* C3 amended: an account classified Healthy or Unhealthy is neither expired
\* nor disabled and its cooldown_seconds is neither -1 nor positive: it is 0
\* when it is in range (>= -1), and may be any integer below -1.
C3_AvailabilityOnlyWithoutCooldown ==
    (Classified /\ status.state \in {"Healthy", "Unhealthy"}) =>
        /\ ~TheSignals.is_expired
        /\ ~TheSignals.disabled
        /\ TheSignals.cooldown_seconds # -1
        /\ TheSignals.cooldown_seconds <= 0
        /\ TheSignals.cooldown_seconds >= -1 => TheSignals.cooldown_seconds = 0

\* An account with an out-of-range cooldown below -1 reached the availability rule.
C3_Witness ==
    /\ Classified
    /\ status.state \in {"Healthy", "Unhealthy"}
    /\ TheSignals.cooldown_seconds < -1

\* C10: row opacity is decided by the display state alone: 0.5 exactly for
\* Expired, ManuallyDisabled and Banned, 1 exactly for Cooldown, Healthy and
\* Unhealthy; a row is at full opacity iff it offers the disable action.
C10_OpacityByState ==
    Classified =>
        /\ status.row_opacity \in {"0.5", "1"}
        /\ status.row_opacity = "0.5" <=>
               status.state \in {"Expired", "ManuallyDisabled", "Banned"}
        /\ status.row_opacity = "1" <=>
               status.state \in {"Cooldown", "Healthy", "Unhealthy"}
        /\ status.row_opacity = "1" <=> "disableAccount" \in ActionSet(status)

\* A row in cooldown was shown at full opacity.
C10_Witness ==
    /\ Classified
    /\ status.state = "Cooldown"
    /\ status.row_opacity = "1"

(***************************************************************************)
(* Claim about the base URL, checked under SpecUrl.                        *)
(***************************************************************************)
Resolved == pc = "done"

\* C7: with a base URL configured the result is that URL with its trailing
\* slashes stripped (a prefix of it that does not end in "/", followed in the
\* configured URL by slashes only); otherwise it is scheme://host, the scheme
\* being x-forwarded-proto if present and the request's own scheme if absent,
\* the host being x-forwarded-host if present and the host header if absent,
\* each chosen independently of the other.
C7_BaseUrl ==
    Resolved =>
        IF base_url.present /\ base_url.value # <<>>
        THEN LET n == Len(current_url)
                 u == base_url.value
             IN  /\ n <= Len(u)
                 /\ current_url = SubSeq(u, 1, n)
                 /\ \A i \in (n + 1) .. Len(u) : u[i] = "/"
                 /\ n > 0 => current_url[n] # "/"
        ELSE LET scheme_part ==
                     IF request.x_forwarded_proto.present
                     THEN request.x_forwarded_proto.value
                     ELSE request.scheme
                 host_part ==
                     IF request.x_forwarded_host.present
                     THEN request.x_forwarded_host.value
                     ELSE IF request.host.present
                          THEN request.host.value
                          ELSE <<"N", "o", "n", "e">>
             IN  current_url = scheme_part \o <<":", "/", "/">> \o host_part

\* No base URL configured, a forwarded host but no forwarded scheme: the request's
\* own scheme was combined with the forwarded host.
C7_Witness ==
    /\ Resolved
    /\ ~Truthy(base_url)
    /\ ~request.x_forwarded_proto.present
    /\ request.x_forwarded_host.present
    /\ request.host.present
    /\ current_url = request.scheme \o <<":", "/", "/">> \o request.x_forwarded_host.value

(***************************************************************************)
(* Claims about the dashboard call, checked under Spec.                    *)
(***************************************************************************)
\* C4: the log lock is taken once, at the start of the scan, is held only
\* while the log buffer is scanned and is released on every way out of the
\* scan, an exception included: it is never held while the banners, the
\* classifications and the rows are built nor after the call has returned or
\* failed.
C4_LockScopedToScan ==
    /\ [](log_lock = "reader" <=> pc \in {"scan", "exit_with"})
    /\ [][(log_lock # "reader" /\ log_lock' = "reader") =>
              (pc = "acquire" /\ pc' = "scan")]_vars
    /\ [][pc' = "acquire" => pc \in {"idle", "acquire"}]_vars

\* A call failed on a record that is not a dict, and the lock is free.
C4_Witness ==
    /\ pc = "failed"
    /\ exc = "AttributeError"
    /\ log_lock = "free"

\* The positions of buf holding a record whose level is ERROR or CRITICAL.
ErrorPositions(buf) ==
    {i \in 1 .. Len(buf) :
        /\ buf[i].is_dict
        /\ "level" \in DOMAIN buf[i].fields
        /\ buf[i].fields.level \in {"ERROR", "CRITICAL"}}

\* C6: when the scan ends normally the error count is the number of records
\* of the log buffer whose level is ERROR or CRITICAL, a record with no level
\* adding nothing; the error banner is present exactly when the count is
\* greater than 0, and carries the count.
C6_ErrorCount ==
    /\ (pc = "exit_with" /\ exc = "none") =>
           error_count = Cardinality(ErrorPositions(log_buffer))
    /\ pc \in {"rows", "done"} =>
           /\ error_alert.present <=> error_count > 0
           /\ error_alert.present => error_alert.count = error_count

\* A buffer holding a record without level and a CRITICAL one was counted as 1
\* and the banner is shown.
C6_Witness ==
    /\ pc = "done"
    /\ log_buffer = <<DictRecord([message |-> "m"]),
                      DictRecord([level |-> "CRITICAL", message |-> "m"])>>
    /\ error_count = 1
    /\ error_alert = [present |-> TRUE, count |-> 1]

\* C8: the table body holds one row per account of the pool, in the pool's
\* iteration order, each the row of that account's classification, when the
\* pool is not empty, and exactly the placeholder row when it is empty.
C8_RowsFollowPool ==
    pc = "done" =>
        IF accounts = <<>>
        THEN accounts_html = <<PlaceholderRow>>
        ELSE /\ Len(accounts_html) = Len(accounts)
             /\ \A i \in 1 .. Len(accounts) :
                    /\ accounts_html[i].account_id = accounts[i]
                    /\ accounts_html[i] =
                           AccountRow(_get_account_status(signals[accounts[i]]),
                                      signals[accounts[i]])

\* A pool iterating a2 before a1 gave the rows of a2 and a1 in that order.
C8_Witness ==
    /\ pc = "done"
    /\ accounts = <<"a2", "a1">>
    /\ Len(accounts_html) = 2
    /\ accounts_html[1].account_id = "a2"
    /\ accounts_html[2].account_id = "a1"

\* What the call's own steps change: its position and its locals.
CallState ==
    <<pc, current_url, error_count, scan_idx, exc, error_alert, accounts_rows,
      row_idx, accounts_html, status>>

\* C9: no step of the call changes the account pool, an account's signals,
\* the log buffer or the configuration; of the shared state it changes only
\* the log lock, which it no longer holds once it has returned or failed.
C9_CallOnlyReads ==
    /\ [][CallState' # CallState =>
              /\ UNCHANGED <<accounts, signals, log_buffer, base_url, request>>
              /\ log_lock' # log_lock => "reader" \in {log_lock, log_lock'}]_vars
    /\ [](pc \in {"done", "failed"} => log_lock # "reader")

\* A call over two accounts and a buffer with an error record has returned.
C9_Witness ==
    /\ pc = "done"
    /\ Len(accounts) = 2
    /\ Len(log_buffer) >= 1
    /\ error_count >= 1
    /\ log_lock = "free"

(***************************************************************************)
(* Claim about concurrent signal changes, checked under SpecRace.          *)
(***************************************************************************)
\* C5: the display state a call returns is the display state of a signal
\* combination the account held at some single moment during the call.
C5_StateOfAHeldCombination ==
    pc = "returned" => status.state \in held

====
